---- MODULE Spec2Model ----
(***************************************************************************)
(* Model of the cities controller of rentswatch-api                        *)
(* (src/unnamed/part_001, the revision of server/api/city/city.controller  *)
(* that has all five handlers): index, show, search, ranking and geocode,  *)
(* together with the JavaScript conversions they rely on (truthiness,      *)
(* Number(), isNaN, Math.min, String.split, _.trim, _.sortBy).             *)
(*                                                                         *)
(* The cities collection, the paginator and doc.model (docs.center,        *)
(* docs.getStats, docs.deciles) are not part of the sources at hand; they  *)
(* are modelled from the design document: the Geo Filter, the Regression   *)
(* Statistics and the Decile Calculator.                                   *)
(*                                                                         *)
(* Numbers are integers: the handlers only compare, negate and clamp them. *)
(* Strings are sequences of one-character strings.                         *)
(***************************************************************************)
EXTENDS Integers, Sequences, FiniteSets, TLC

VARIABLES
  cities,     \* the cities collection: a sequence of city objects (index = identity)
  res,        \* the last response sent by a cities handler
  showq,      \* show requests waiting for city.getStats() (sync mode)
  store,      \* the listing store currently published
  refreshes,  \* number of store refreshes so far
  g           \* the geocode request in flight and its bookkeeping

vars == <<cities, res, showq, store, refreshes, g>>

-----------------------------------------------------------------------------
(* Bounds of the model *)

MaxRanked == 3      \* cities in the collection, ranking specification
MaxCities == 2      \* cities in the collection, readers specification
MaxOffset == 1      \* largest pagination offset requested
MaxShows == 1       \* show requests waiting for statistics at one time
MaxRefreshes == 1   \* store refreshes in one behaviour

-----------------------------------------------------------------------------
(* JavaScript values *)

Undefined == [t |-> "undefined", n |-> 0, s |-> <<>>]
Null == [t |-> "null", n |-> 0, s |-> <<>>]
NaN == [t |-> "NaN", n |-> 0, s |-> <<>>]
Num(k) == [t |-> "number", n |-> k, s |-> <<>>]
Str(x) == [t |-> "string", n |-> 0, s |-> x]
Bool(b) == [t |-> "boolean", n |-> IF b THEN 1 ELSE 0, s |-> <<>>]
Obj(k) == [t |-> "object", n |-> k, s |-> <<>>]

\* ToBoolean
Truthy(v) ==
  CASE v.t = "undefined" -> FALSE
    [] v.t = "null" -> FALSE
    [] v.t = "NaN" -> FALSE
    [] v.t = "number" -> v.n # 0
    [] v.t = "string" -> v.s # <<>>
    [] v.t = "boolean" -> v.n = 1
    [] OTHER -> TRUE

Digits == <<"0", "1", "2", "3", "4", "5", "6", "7", "8", "9">>
IsDigit(c) == \E d \in 1..10 : Digits[d] = c
DigitVal(c) == (CHOOSE d \in 1..10 : Digits[d] = c) - 1

RECURSIVE TrimLeft(_)
TrimLeft(s) == IF s # <<>> /\ Head(s) = " " THEN TrimLeft(Tail(s)) ELSE s

RECURSIVE TrimRight(_)
TrimRight(s) ==
  IF s # <<>> /\ s[Len(s)] = " " THEN TrimRight(SubSeq(s, 1, Len(s) - 1)) ELSE s

\* _.trim / the whitespace stripping of StringToNumber
Trim(s) == TrimRight(TrimLeft(s))

RECURSIVE DigitsValue(_, _)
DigitsValue(s, acc) ==
  IF s = <<>> THEN acc ELSE DigitsValue(Tail(s), 10 * acc + DigitVal(Head(s)))

AllDigits(s) == s # <<>> /\ \A i \in 1..Len(s) : IsDigit(s[i])

\* Number(string): blank is 0, an optionally signed run of digits is its
\* value, anything else is NaN.
StringToNumber(s) ==
  LET x == Trim(s) IN
  IF x = <<>> THEN Num(0)
  ELSE IF AllDigits(x) THEN Num(DigitsValue(x, 0))
  ELSE IF Head(x) = "-" /\ AllDigits(Tail(x)) THEN Num(0 - DigitsValue(Tail(x), 0))
  ELSE IF Head(x) = "+" /\ AllDigits(Tail(x)) THEN Num(DigitsValue(Tail(x), 0))
  ELSE NaN

\* ToNumber
ToNumber(v) ==
  CASE v.t = "undefined" -> NaN
    [] v.t = "null" -> Num(0)
    [] v.t = "NaN" -> NaN
    [] v.t = "number" -> v
    [] v.t = "string" -> StringToNumber(v.s)
    [] v.t = "boolean" -> Num(v.n)
    [] OTHER -> NaN

\* the global isNaN(v)
IsNaN(v) == ToNumber(v).t = "NaN"

\* k * v for a number literal k
Times(k, v) == LET x == ToNumber(v) IN IF x.t = "NaN" THEN NaN ELSE Num(k * x.n)

\* a || b
OrElse(a, b) == IF Truthy(a) THEN a ELSE b

\* Math.min(a, b)
MathMin(a, b) ==
  LET x == ToNumber(a)
      y == ToNumber(b)
  IN IF x.t = "NaN" \/ y.t = "NaN" THEN NaN
     ELSE IF x.n <= y.n THEN x ELSE y

\* a request parameter: absent, or the string given
Absent == [present |-> FALSE, s |-> <<>>]
Given(s) == [present |-> TRUE, s |-> s]
ParamValue(p) == IF p.present THEN Str(p.s) ELSE Undefined

-----------------------------------------------------------------------------
(* Objects: a function from the names of the properties it has to values *)

Get(o, k) == IF k \in DOMAIN o THEN o[k] ELSE Undefined

\* delete o[k] for every k in keys
Without(o, keys) == [k \in (DOMAIN o) \ keys |-> o[k]]

\* _.extend(o, src)
Extend(o, src) ==
  [k \in (DOMAIN o) \cup (DOMAIN src) |-> IF k \in DOMAIN src THEN src[k] ELSE o[k]]

\* the elements s[i] with keep[i], in order
SeqFilter(s, keep) ==
  LET F[i \in 0..Len(s)] ==
        IF i = 0 THEN <<>>
        ELSE IF keep[i] THEN Append(F[i - 1], s[i]) ELSE F[i - 1]
  IN F[Len(s)]

\* Array.prototype.slice(from, to)
Slice(s, from, to) ==
  LET hi == IF to < Len(s) THEN to ELSE Len(s) IN
  IF from >= hi THEN <<>> ELSE SubSeq(s, from + 1, hi)

-----------------------------------------------------------------------------
(* The cities collection *)

NameChars == <<"a", " ", "b">>
\* the name of the i-th city: "a", "a ", "a b", "a ba", ...
NameOf(i) == [j \in 1..i |-> NameChars[((j - 1) % 3) + 1]]

\* the indicators a city is drawn with; inequalityIndex may be a number,
\* null, or missing (Undefined here: the property is not set)
Profiles ==
  {[avg |-> 1, total |-> 2, ineq |-> Undefined],
   [avg |-> 2, total |-> 1, ineq |-> Null],
   [avg |-> 1, total |-> 1, ineq |-> Num(0)],
   [avg |-> 2, total |-> 2, ineq |-> Num(1)],
   [avg |-> 0 - 1, total |-> 0, ineq |-> Num(2)]}

Base(i, ranked, prof) ==
  [k \in {"name", "ranked", "avgPricePerSqm", "total"} |->
     CASE k = "name" -> Str(NameOf(i))
       [] k = "ranked" -> Bool(ranked)
       [] k = "avgPricePerSqm" -> Num(prof.avg)
       [] OTHER -> Num(prof.total)]

Details == [k \in {"months", "neighborhoods", "deciles"} |-> Obj(1)]

MkCity(i, ranked, prof, detailed) ==
  LET b == Base(i, ranked, prof)
      c == IF prof.ineq.t = "undefined" THEN b
           ELSE Extend(b, [k \in {"inequalityIndex"} |-> prof.ineq])
  IN IF detailed THEN Extend(c, Details) ELSE c

CityChoices(i, profs, details) ==
  {MkCity(i, r, p, d) : r \in BOOLEAN, p \in profs, d \in details}

\* every collection of exactly n cities
RECURSIVE Collections(_, _, _)
Collections(n, profs, details) ==
  IF n = 0 THEN {<<>>}
  ELSE {Append(c, x) : c \in Collections(n - 1, profs, details),
                       x \in CityChoices(n, profs, details)}

\* cities.toArray(): the stored objects, by reference
toArray(h) == [i \in 1..Len(h) |-> i]

\* _.cloneDeep(city): a fresh object with the same properties
\* (a copy that shares the stored object is the faulty variant cloneShared)
cloneShared(h, r) == [heap |-> h, ref |-> r]
cloneDeep(h, r) == [heap |-> Append(h, h[r]), ref |-> Len(h) + 1]

INDEX_EXCLUDE == {"months", "neighborhoods", "deciles"}

\* INDEX_EXCLUDE.forEach(function(k) { delete city[k] })
deleteExcluded(h, r) == [h EXCEPT ![r] = Without(@, INDEX_EXCLUDE)]

\* _.map(list, function(city) { city = _.cloneDeep(city); delete ...; return city })
RECURSIVE mapStripped(_, _, _)
mapStripped(h, list, out) ==
  IF list = <<>> THEN [heap |-> h, out |-> out]
  ELSE LET c == cloneDeep(h, Head(list)) IN
       mapStripped(deleteExcluded(c.heap, c.ref), Tail(list), Append(out, c.ref))

\* paginator.offset(req): pages of 50 cities from the requested offset
PageLimit == 50

\* 1*req.query.has_neighborhoods
WantsNeighborhoods(p) == Truthy(Times(1, ParamValue(p)))

\* a response: the handler that sent it, its status and body; indicator notes
\* the indicator a ranking was built with
NoResponse ==
  [op |-> "none", status |-> 0, list |-> <<>>, pairs |-> <<>>, error |-> "",
   indicator |-> ""]
JsonList(op, objs) == [NoResponse EXCEPT !.op = op, !.status = 200, !.list = objs]
JsonPairs(op, ps) == [NoResponse EXCEPT !.op = op, !.status = 200, !.pairs = ps]
\* response.handleError(res, status)(message)
HandleError(op, status, msg) == [NoResponse EXCEPT !.op = op, !.status = status, !.error = msg]

\* what the collection holds once a handler has run on heap h
Stored(h) == SubSeq(h, 1, Len(cities))

\* exports.index
index(offset, hasNb) ==
  LET all == toArray(cities)
      list == IF WantsNeighborhoods(hasNb)
              THEN SeqFilter(all, [i \in 1..Len(all) |->
                                    Truthy(Get(cities[all[i]], "neighborhoods"))])
              ELSE all
      page == Slice(list, offset, offset + PageLimit)
      m == mapStripped(cities, page, <<>>)
  IN /\ res' = JsonList("index", [i \in 1..Len(m.out) |-> m.heap[m.out[i]]])
     /\ cities' = Stored(m.heap)
     /\ UNCHANGED <<showq, store, refreshes, g>>

\* slug(s): trimmed, spaces turned into dashes
slug(s) == LET x == Trim(s) IN [i \in 1..Len(x) |-> IF x[i] = " " THEN "-" ELSE x[i]]

\* fuzzy.test(q, s): the characters of q occur in s in order
RECURSIVE fuzzyTest(_, _)
fuzzyTest(q, s) ==
  IF q = <<>> THEN TRUE
  ELSE IF s = <<>> THEN FALSE
  ELSE IF Head(q) = Head(s) THEN fuzzyTest(Tail(q), Tail(s))
  ELSE fuzzyTest(q, Tail(s))

\* exports.search
search(qp, offset, hasNb) ==
  LET qv == OrElse(ParamValue(qp), Str(<<>>))
      q == slug(qv.s)
      Keep(r) ==
        /\ ~(WantsNeighborhoods(hasNb) /\ ~Truthy(Get(cities[r], "neighborhoods")))
        /\ fuzzyTest(q, slug(OrElse(Get(cities[r], "name"), Str(<<>>)).s))
      all == toArray(cities)
      filtered == SeqFilter(all, [i \in 1..Len(all) |-> Keep(all[i])])
      page == Slice(filtered, offset, offset + PageLimit)
      m == mapStripped(cities, page, <<>>)
  IN /\ IF q = <<>>
        THEN /\ res' = HandleError("search", 0, "'q' parameter must not be empty.")
             /\ cities' = cities
        ELSE /\ res' = JsonList("search", [i \in 1..Len(m.out) |-> m.heap[m.out[i]]])
             /\ cities' = Stored(m.heap)
     /\ UNCHANGED <<showq, store, refreshes, g>>

\* cities.get({ name: name }): the first city of that name, 0 when there is none
citiesGet(name) ==
  LET all == toArray(cities)
      hits == SeqFilter(all, [i \in 1..Len(all) |-> Get(cities[all[i]], "name") = Str(name)])
  IN IF hits = <<>> THEN 0 ELSE Head(hits)

\* exports.show, up to the call of city.getStats()
show(name, sync, env) ==
  LET city == citiesGet(name) IN
  /\ IF city # 0
     THEN IF Truthy(ParamValue(sync)) /\ env = "development"
          THEN /\ Cardinality(showq) < MaxShows
               /\ showq' = showq \cup {city}
               /\ res' = res
          ELSE /\ res' = JsonList("show", <<cities[city]>>)
               /\ showq' = showq
     ELSE /\ res' = HandleError("show", 404, "Not found")
          /\ showq' = showq
  /\ UNCHANGED <<cities, store, refreshes, g>>

\* the statistics city.getStats() may resolve with
CityStats ==
  {[k \in {"total", "avgPricePerSqm"} |-> IF k = "total" THEN Num(t) ELSE Num(a)] :
     t \in {0, 3}, a \in {3}}

\* exports.show: city.getStats() resolved with stats
showStats(city, stats) ==
  LET c == cloneDeep(cities, city)
      h == [c.heap EXCEPT ![c.ref] = Extend(@, stats)]
  IN /\ city \in showq
     /\ showq' = showq \ {city}
     /\ res' = JsonList("show", <<h[c.ref]>>)
     /\ cities' = Stored(h)
     /\ UNCHANGED <<store, refreshes, g>>

\* exports.show: city.getStats() rejected
showFail(city) ==
  /\ city \in showq
  /\ showq' = showq \ {city}
  /\ res' = HandleError("show", 500, "error")
  /\ UNCHANGED <<cities, store, refreshes, g>>

\* baseCompareAscending of lodash on two sort criteria (numbers or NaN):
\* NaN sorts after every number, and two NaN never compare equal
compareAscending(value, other) ==
  IF value.t = "NaN" THEN 1
  ELSE IF other.t = "NaN" THEN 0 - 1
  ELSE IF value.n > other.n THEN 1
  ELSE IF value.n < other.n THEN 0 - 1
  ELSE 0

\* compareMultiple of lodash: the criteria, then the position in the input
compareMultiple(a, b) ==
  LET c == compareAscending(a.criteria, b.criteria) IN
  IF c # 0 THEN c ELSE a.index - b.index

Orders(n) == {p \in [1..n -> 1..n] : \A i, j \in 1..n : p[i] = p[j] => i = j}

\* _.sortBy(list, key): every order Array.prototype.sort may leave the list in
\* under compareMultiple (the order among NaN criteria is up to the engine)
\* keys[i] is the sort criterion of list[i]
sortBy(list, keys) ==
  LET n == Len(list)
      entry == [i \in 1..n |-> [criteria |-> keys[i], index |-> i]]
      Ordered(p) ==
        \A i, j \in 1..n :
          i < j => \/ compareMultiple(entry[p[i]], entry[p[j]]) < 0
                   \/ entry[p[i]].criteria.t = "NaN" /\ entry[p[j]].criteria.t = "NaN"
  IN {[i \in 1..n |-> list[p[i]]] : p \in {q \in Orders(n) : Ordered(q)}}

indicators == {"avgPricePerSqm", "total", "inequalityIndex"}

\* indicators.indexOf(req.query.indicator) > -1 ? req.query.indicator : 'avgPricePerSqm'
chosenIndicator(p) == IF p.present /\ p.s \in indicators THEN p.s ELSE "avgPricePerSqm"

\* (c)=> -1 * c[indicator]
\* (rankKeyAscending: the key without the negation, an ascending order)
rankKeyAscending(c, indicator) == Times(1, Get(c, indicator))
rankKey(c, indicator) == Times(0 - 1, Get(c, indicator))

\* .filter('ranked')
rankedOnly(h, list) ==
  SeqFilter(list, [i \in 1..Len(list) |-> Truthy(Get(h[list[i]], "ranked"))])

\* exports.ranking
ranking(p) ==
  LET indicator == chosenIndicator(p)
      kept == rankedOnly(cities, toArray(cities))
      keys == [i \in 1..Len(kept) |-> rankKey(cities[kept[i]], indicator)]
  IN \E sorted \in sortBy(kept, keys) :
       /\ res' = [JsonPairs("ranking",
                    [i \in 1..Len(sorted) |->
                       [name |-> Get(cities[sorted[i]], "name"),
                        value |-> Get(cities[sorted[i]], indicator)]])
                  EXCEPT !.indicator = indicator]
       /\ UNCHANGED <<cities, showq, store, refreshes, g>>

-----------------------------------------------------------------------------
(* The listing store and the statistics of doc.model (Geo Filter, Regression *)
(* Statistics and Decile Calculator of the design) *)

MaxListings == 2    \* listings in the largest store

\* the i-th listing of the feed: odd ones are small flats with a known number
\* of rooms, even ones are large with the number of rooms unknown, every third
\* one lies two degrees north of the others
Listing(i) ==
  LET space == IF i % 2 = 0 THEN 210 ELSE 40 + 10 * i IN
  [latitude |-> IF i % 3 = 0 THEN 3 ELSE 1,
   longitude |-> 2,
   livingSpace |-> space,
   totalRent |-> space * (9 + i),
   rooms |-> IF i % 2 = 1 THEN Num(i) ELSE Undefined]

\* the stores a refresh may publish
Stores == {[i \in 1..n |-> Listing(i)] : n \in 0..MaxListings}

Abs(x) == IF x < 0 THEN 0 - x ELSE x

\* great-circle distance in km on the integer-degree grid of the model:
\* 0 for the same point, one degree is 111 km
distanceKm(lat1, lng1, lat2, lng2) ==
  LET dlat == Abs(lat1 - lat2)
      dlng == Abs(lng1 - lng2)
  IN 111 * (IF dlat > dlng THEN dlat ELSE dlng)

\* Geo Filter: the listings of st within the radius that pass the attribute
\* filters, in store order, cut to the limit when one is given
select(st, a) ==
  LET lat == ToNumber(a.latitude)
      lng == ToNumber(a.longitude)
      radius == ToNumber(a.radius)
      lo == ToNumber(a.minLivingSpace)
      hi == ToNumber(a.maxLivingSpace)
      limit == ToNumber(a.limit)
      Keep(l) ==
        /\ lat.t = "number" /\ lng.t = "number" /\ radius.t = "number"
        /\ distanceKm(l.latitude, l.longitude, lat.n, lng.n) <= radius.n
        /\ lo.t = "number" /\ lo.n <= l.livingSpace
        /\ hi.t = "number" /\ l.livingSpace <= hi.n
        /\ a.noRooms.isNull \/
             (l.rooms.t = "number" /\
               \E k \in 1..Len(a.noRooms.list) : a.noRooms.list[k] = l.rooms.n)
      all == SeqFilter(st, [i \in 1..Len(st) |-> Keep(st[i])])
  IN IF limit.t = "number" /\ limit.n > 0 THEN Slice(all, 0, limit.n) ELSE all

\* the sum of the numbers of s
Sum(s) ==
  LET S[i \in 0..Len(s)] == IF i = 0 THEN 0 ELSE S[i - 1] + s[i] IN S[Len(s)]

\* sums over a selection
SumSpace(rows) == Sum([i \in 1..Len(rows) |-> rows[i].livingSpace])
SumRent(rows) == Sum([i \in 1..Len(rows) |-> rows[i].totalRent])
SumSpaceSquared(rows) == Sum([i \in 1..Len(rows) |-> rows[i].livingSpace * rows[i].livingSpace])
SumSpaceRent(rows) == Sum([i \in 1..Len(rows) |-> rows[i].livingSpace * rows[i].totalRent])

\* n * Sxx - Sx^2: zero exactly when every livingSpace is the same
spaceSpread(rows) ==
  Len(rows) * SumSpaceSquared(rows) - SumSpace(rows) * SumSpace(rows)

\* Regression Statistics: total, and the least-squares slope of totalRent on
\* livingSpace as an exact fraction; a selection too small or without spread
\* in livingSpace is marked insufficientData and carries no slope.  (stdErr
\* and inequalityIndex need square roots and are left out of the model.)
getStats(rows) ==
  IF Len(rows) < 2 \/ spaceSpread(rows) = 0
  THEN [total |-> Len(rows), insufficientData |-> TRUE]
  ELSE [total |-> Len(rows), insufficientData |-> FALSE,
        avgPricePerSqm |->
          [num |-> Len(rows) * SumSpaceRent(rows) - SumSpace(rows) * SumRent(rows),
           den |-> spaceSpread(rows)]]

\* s sorted ascending (insertion sort)
RECURSIVE Insert(_, _)
Insert(s, x) ==
  IF s = <<>> THEN <<x>>
  ELSE IF x <= Head(s) THEN <<x>> \o s
  ELSE <<Head(s)>> \o Insert(Tail(s), x)

RECURSIVE SortAscending(_)
SortAscending(s) == IF s = <<>> THEN <<>> ELSE Insert(SortAscending(Tail(s)), Head(s))

\* Decile Calculator: the nine boundaries of totalRent / livingSpace, in
\* tenths, by linear interpolation at rank k * (n - 1) / 10; none for fewer
\* than two listings
deciles(rows) ==
  LET n == Len(rows)
      v == SortAscending([i \in 1..n |-> rows[i].totalRent \div rows[i].livingSpace])
      At(k) ==
        LET r == k * (n - 1)
            low == (r \div 10) + 1
            high == IF low < n THEN low + 1 ELSE low
        IN 10 * v[low] + (r % 10) * (v[high] - v[low])
  IN IF n < 2 THEN <<>> ELSE [k \in 1..9 |-> At(k)]

-----------------------------------------------------------------------------
(* exports.geocode *)

\* String.prototype.split(','): the pieces between the commas
RECURSIVE splitComma(_, _, _)
splitComma(s, cur, out) ==
  IF s = <<>> THEN Append(out, cur)
  ELSE IF Head(s) = "," THEN splitComma(Tail(s), <<>>, Append(out, cur))
  ELSE splitComma(Tail(s), Append(cur, Head(s)), out)

\* _(s.split(',')).map(_.trim).map(Number).reject(isNaN).value(), as integers
numbersIn(s) ==
  LET pieces == splitComma(s, <<>>, <<>>)
      nums == [i \in 1..Len(pieces) |-> StringToNumber(Trim(pieces[i]))]
      kept == SeqFilter(nums, [i \in 1..Len(nums) |-> ~IsNaN(nums[i])])
  IN [i \in 1..Len(kept) |-> kept[i].n]

\* var radius = req.query.radius || 20; radius = isNaN(radius) ? 20 : radius
defaulted(param, dflt) ==
  LET v == OrElse(ParamValue(param), Num(dflt)) IN
  IF IsNaN(v) THEN Num(dflt) ELSE v

MaxRadius == 20
DefaultMinLivingSpace == 0
DefaultMaxLivingSpace == 200

\* radius = Math.min(radius, 20)
clampRadius(r) == MathMin(r, Num(MaxRadius))

validRadius(param) == clampRadius(defaulted(param, MaxRadius))
validMinLivingSpace(param) == defaulted(param, DefaultMinLivingSpace)
validMaxLivingSpace(param) == defaulted(param, DefaultMaxLivingSpace)

\* the room filter: null without no_rooms, else the numbers in the list
validRooms(param) ==
  IF Truthy(ParamValue(param))
  THEN [isNull |-> FALSE, list |-> numbersIn(param.s)]
  ELSE [isNull |-> TRUE, list |-> <<>>]

\* if( latlng.length === 2 )
coordinatesGiven(latlng) == Len(latlng) = 2

\* the geocoder's callback: what err and body were
\* (an error; an empty array; an array with a match; a body that is no array)
GeocoderAnswers == {"error", "empty", "match", "garbage"}
answerErr(a) == a = "error"
\* body.length && body.push
bodyIsFilledArray(a) == a = "match"
\* body[0].lat, body[0].lon of the match the model's geocoder finds
bodyLat(a) == IF a = "match" THEN Str(<<"1">>) ELSE Undefined
bodyLon(a) == IF a = "match" THEN Str(<<"2">>) ELSE Undefined

\* if(!err && body.length && body.push)
\* (anyAnswerWithoutError: the variant that tests err alone)
anyAnswerWithoutError(a) == ~answerErr(a)
geocoded(a) == ~answerErr(a) /\ bodyIsFilledArray(a)

NoRequest ==
  [q |-> Absent, radius |-> Absent, min_living_space |-> Absent,
   max_living_space |-> Absent, no_rooms |-> Absent, limit |-> Absent]

NoArgs ==
  [latitude |-> Undefined, longitude |-> Undefined, radius |-> Undefined,
   minLivingSpace |-> Undefined, maxLivingSpace |-> Undefined,
   noRooms |-> [isNull |-> TRUE, list |-> <<>>], limit |-> Undefined]

NoOutcome == [status |-> 0, error |-> "", place |-> <<>>]

GIdle ==
  [pc |-> "idle", req |-> NoRequest,
   radius |-> Undefined, minLivingSpace |-> Undefined, maxLivingSpace |-> Undefined,
   noRooms |-> [isNull |-> TRUE, list |-> <<>>], latlng |-> <<>>,
   place |-> <<>>,
   geocoderCalls |-> 0, answer |-> "none",
   centerCalls |-> 0, centerArgs |-> NoArgs,
   filtered |-> FALSE, rows |-> <<>>, statsRows |-> <<>>, decilesRows |-> <<>>,
   statsEpoch |-> 0, decilesEpoch |-> 0,
   out |-> NoOutcome]

\* sendCenter(place): docs.center(place.latitude, place.longitude, place.radius,
\* minLivingSpace, maxLivingSpace, noRooms, req.query.limit) is called
sendCenter(s, place) ==
  [s EXCEPT !.pc = "filtering",
            !.place = place,
            !.centerCalls = s.centerCalls + 1,
            !.centerArgs =
              [latitude |-> place.latitude, longitude |-> place.longitude,
               radius |-> place.radius,
               minLivingSpace |-> s.minLivingSpace,
               maxLivingSpace |-> s.maxLivingSpace,
               noRooms |-> s.noRooms,
               limit |-> ParamValue(s.req.limit)]]

\* _.extend(place, { latitude: ..., longitude: ..., name: ..., type: ..., deciles: [] })
located(place, lat, lng, name, type) ==
  Extend(place, [latitude |-> lat, longitude |-> lng, name |-> name, type |-> type,
                 deciles |-> <<>>])

respond(s, status, error) ==
  [s EXCEPT !.pc = "done", !.out = [status |-> status, error |-> error, place |-> <<>>]]

\* exports.geocode, up to the first asynchronous call
geocode(req) ==
  LET s0 == [GIdle EXCEPT !.req = req]
      s1 == [s0 EXCEPT !.radius = validRadius(req.radius),
                       !.minLivingSpace = validMinLivingSpace(req.min_living_space),
                       !.maxLivingSpace = validMaxLivingSpace(req.max_living_space),
                       !.noRooms = validRooms(req.no_rooms),
                       !.latlng = numbersIn(req.q.s)]
      place == [radius |-> s1.radius]
  IN /\ g.pc = "idle"
     /\ g' = IF ~Truthy(ParamValue(req.q))
             THEN respond(s0, 400, "Missing 'q' parameter.")
             ELSE IF coordinatesGiven(s1.latlng)
             THEN sendCenter(s1, located(place, Times(1, Num(s1.latlng[1])),
                                         Times(1, Num(s1.latlng[2])),
                                         "unkown", "unkown"))
             ELSE [s1 EXCEPT !.pc = "geocoding", !.place = place,
                             !.geocoderCalls = s1.geocoderCalls + 1]
     /\ UNCHANGED <<cities, res, showq, store, refreshes>>

\* the callback of request({ url: url, json: true, qs: params }, ...)
geocoderCallback(a) ==
  /\ g.pc = "geocoding"
  /\ g' = LET s == [g EXCEPT !.answer = a] IN
          IF geocoded(a)
          THEN sendCenter(s, located(s.place, Times(1, bodyLat(a)), Times(1, bodyLon(a)),
                                     "display_name", "type"))
          ELSE respond(s, 404, "Not found")
  /\ UNCHANGED <<cities, res, showq, store, refreshes>>

\* the selection the decile calculator works on: docs.deciles(rows)
\* (refiltered: the variant that runs the filter again on the published store)
refiltered(rows, st, args) == select(st, args)
decilesSelection(rows, st, args) == rows

\* place = _.extend(place, docs.getStats(rows, radius, true))
\* (withoutStats: the variant that drops the statistics)
withoutStats(place, stats) == place
withStats(place, stats) == Extend(place, stats)

\* docs.center(...) resolved with rows: place is extended with
\* docs.getStats(rows, radius, true) and docs.deciles(rows) is called
centerResolved ==
  /\ g.pc = "filtering"
  /\ g' = LET rows == select(store, g.centerArgs) IN
          [g EXCEPT !.pc = "deciles",
                    !.filtered = TRUE,
                    !.rows = rows,
                    !.statsRows = rows,
                    !.statsEpoch = refreshes,
                    !.place = withStats(g.place, getStats(rows))]
  /\ UNCHANGED <<cities, res, showq, store, refreshes>>

\* docs.center(...) rejected: response.handleError(res, 500)
centerRejected ==
  /\ g.pc = "filtering"
  /\ g' = respond(g, 500, "error")
  /\ UNCHANGED <<cities, res, showq, store, refreshes>>

\* the body sent once the deciles are known: place.deciles = deciles
placeWithDeciles(place, d) == Extend(place, [deciles |-> d])

\* docs.deciles(rows) resolved: res.status(200).json(place)
decilesResolved ==
  /\ g.pc = "deciles"
  /\ g' = LET sel == decilesSelection(g.rows, store, g.centerArgs) IN
          [g EXCEPT !.pc = "done",
                    !.decilesRows = sel,
                    !.decilesEpoch = refreshes,
                    !.out = [status |-> 200, error |-> "",
                             place |-> placeWithDeciles(g.place, deciles(sel))]]
  /\ UNCHANGED <<cities, res, showq, store, refreshes>>

\* a store refresh publishes another store
refresh ==
  /\ refreshes < MaxRefreshes
  /\ \E st \in Stores \ {store} : store' = st
  /\ refreshes' = refreshes + 1
  /\ UNCHANGED <<cities, res, showq, g>>

-----------------------------------------------------------------------------
(* Requests the model draws *)

IndicatorParams ==
  {[present |-> FALSE, s |-> ""], Given("avgPricePerSqm"), Given("total"), Given("inequalityIndex"), Given("name")}

FlagParams == {Absent, Given(<<"1">>), Given(<<"0">>)}

SearchParams ==
  {Absent, Given(<<" ">>), Given(<<"a">>), Given(<<"a", " ", "b">>)}

Envs == {"development", "production"}

\* the ranking specification: any collection of up to MaxRanked cities
InitRanking ==
  /\ cities \in UNION {Collections(n, Profiles, {FALSE}) : n \in 0..MaxRanked}
  /\ res = NoResponse
  /\ showq = {}
  /\ store = <<>>
  /\ refreshes = 0
  /\ g = GIdle

NextRanking == \E p \in IndicatorParams : ranking(p)

SpecRanking == InitRanking /\ [][NextRanking]_vars

\* the readers specification: index, search, show and ranking in any order
InitCities ==
  /\ cities \in UNION {Collections(n, {[avg |-> 2, total |-> 2, ineq |-> Num(1)]}, BOOLEAN) : n \in 0..MaxCities}
  /\ res = NoResponse
  /\ showq = {}
  /\ store = <<>>
  /\ refreshes = 0
  /\ g = GIdle

NextCities ==
  \/ \E offset \in 0..MaxOffset, hasNb \in FlagParams : index(offset, hasNb)
  \/ \E q \in SearchParams, offset \in 0..MaxOffset, hasNb \in FlagParams :
       search(q, offset, hasNb)
  \/ \E i \in 1..(MaxCities + 1), sync \in FlagParams, env \in Envs :
       show(NameOf(i), sync, env)
  \/ \E city \in showq, stats \in CityStats : showStats(city, stats)
  \/ \E city \in showq : showFail(city)
  \/ \E p \in IndicatorParams : ranking(p)

SpecCities == InitCities /\ [][NextCities]_vars

QParams ==
  {Absent, Given(<<"a">>), Given(<<"1", ",", "2">>), Given(<<" ", "3", " ", ",", "2">>)}
RadiusParams ==
  {Absent, Given(<<>>), Given(<<" ">>), Given(<<"a">>), Given(<<"5">>), Given(<<"2", "5">>),
   Given(<<"-", "3">>)}
MinSpaceParams == {Absent, Given(<<"a">>), Given(<<"-", "5">>)}
MaxSpaceParams == {Absent, Given(<<"a">>), Given(<<"2", "5", "0">>)}
RoomsParams == {Absent, Given(<<"1">>), Given(<<"1", ",", "a">>), Given(<<"a">>)}
LimitParams == {Absent, Given(<<"1">>)}

MaxGiven == 2       \* optional parameters given in one geocode request

Optional == {"radius", "min_living_space", "max_living_space", "no_rooms", "limit"}

\* the geocode requests drawn: any q, and up to MaxGiven optional parameters
GeocodeRequests ==
  {r \in [q : QParams, radius : RadiusParams, min_living_space : MinSpaceParams,
          max_living_space : MaxSpaceParams, no_rooms : RoomsParams, limit : LimitParams] :
     Cardinality({k \in Optional : r[k].present}) <= MaxGiven}

\* the geocode specification: one geocode request, drawn from GeocodeRequests,
\* with store refreshes at any point of its processing
InitGeocode ==
  /\ cities = <<>>
  /\ res = NoResponse
  /\ showq = {}
  /\ store \in Stores
  /\ refreshes = 0
  /\ g = GIdle

NextGeocode ==
  \/ \E req \in GeocodeRequests : geocode(req)
  \/ \E a \in GeocoderAnswers : geocoderCallback(a)
  \/ centerResolved
  \/ centerRejected
  \/ decilesResolved
  \/ refresh

SpecGeocode == InitGeocode /\ [][NextGeocode]_vars

-----------------------------------------------------------------------------
(* Properties of the cities handlers *)

RankedCities == {i \in 1..Len(cities) : Truthy(Get(cities[i], "ranked"))}

\* a is not below b as an indicator value: a missing indicator is the lowest,
\* null counts as the number it converts to
NotBelow(a, b) ==
  \/ b.t = "undefined"
  \/ a.t # "undefined" /\ ToNumber(a).n >= ToNumber(b).n

ReadersLeaveCitiesUnchanged == [][cities' = cities]_vars

\* an index or search response that stripped months, neighborhoods and
\* deciles from a city that still has them in the collection
StrippedWitness ==
  /\ res.op \in {"index", "search"}
  /\ Len(res.list) = 2
  /\ \A k \in INDEX_EXCLUDE : k \notin DOMAIN res.list[1]
  /\ \E i \in 1..Len(cities) :
       /\ cities[i]["name"] = res.list[1]["name"]
       /\ INDEX_EXCLUDE \subseteq DOMAIN cities[i]

-----------------------------------------------------------------------------
(* Properties of the geocode handler *)

\* the request got past the check of q
Accepted == g.pc # "idle" /\ Truthy(ParamValue(g.req.q))

\* x is a run of digits with an optional sign
IsNumeral(x) == x # <<>> /\ (AllDigits(x) \/ (Head(x) \in {"-", "+"} /\ AllDigits(Tail(x))))
NumeralValue(x) ==
  IF Head(x) = "-" THEN 0 - DigitsValue(Tail(x), 0)
  ELSE IF Head(x) = "+" THEN DigitsValue(Tail(x), 0)
  ELSE DigitsValue(x, 0)

NotNumeric(p) == ~p.present \/ ~IsNumeral(Trim(p.s))

\* C3: the radius handed to the geo filter and reported in the response is at
\* most 20, and it is exactly 20 when the radius parameter is absent or not
\* numeric.
RadiusAtMostTwentyDefaultTwenty ==
  Accepted =>
    /\ g.radius.t = "number" /\ g.radius.n <= 20
    /\ NotNumeric(g.req.radius) => g.radius = Num(20)
    /\ g.centerCalls > 0 => g.centerArgs.radius = g.radius
    /\ (g.pc = "done" /\ g.out.status = 200) => g.out.place.radius = g.radius

\* C4: the living-space bounds handed to the geo filter satisfy
\* minLivingSpace >= 0 and maxLivingSpace <= 200 whatever the parameters are.
SpaceBoundsWithinRange ==
  g.centerCalls > 0 =>
    /\ ToNumber(g.centerArgs.minLivingSpace).n >= 0
    /\ ToNumber(g.centerArgs.maxLivingSpace).n <= 200

\* C5: when the geocoding service fails (an error, or a body that cannot be
\* used), the request ends in an outcome of its own: not the "Not found" given
\* when the geocoder finds nothing, not the answer to an invalid query, and
\* not a result.
GeocoderFailureIsDistinct ==
  g.answer \in {"error", "garbage"} =>
    /\ g.pc = "done"
    /\ ~(g.out.status = 404 /\ g.out.error = "Not found")
    /\ g.out.status # 400
    /\ g.out.status # 200

\* some entry of the comma-separated list does not convert to a number
HasUnparsableEntry(p) ==
  /\ Truthy(ParamValue(p))
  /\ LET pieces == splitComma(p.s, <<>>, <<>>) IN
     \E i \in 1..Len(pieces) : IsNaN(Str(Trim(pieces[i])))

\* C6: a request whose no_rooms holds an entry that is not a number is
\* rejected as an invalid query, and the geo filter is not invoked for it.
UnparsableRoomsRejected ==
  (Accepted /\ HasUnparsableEntry(g.req.no_rooms)) =>
    /\ g.centerCalls = 0
    /\ g.pc = "done" => g.out.status = 400

TwoNumbers(p) ==
  /\ p.present
  /\ LET pieces == splitComma(p.s, <<>>, <<>>) IN
     Len(pieces) = 2 /\ IsNumeral(Trim(pieces[1])) /\ IsNumeral(Trim(pieces[2]))

\* C8: the geo filter is not invoked while the geocoder's answer is awaited,
\* it is invoked after a geocoder request only when the answer held a match,
\* never when geocoding failed or found nothing, and when q is two numbers no
\* geocoder request is made and the two numbers are the centre handed to the
\* filter.
GeocodingPrecedesFilter ==
  /\ g.pc = "geocoding" => g.centerCalls = 0 /\ g.geocoderCalls = 1
  /\ (g.centerCalls > 0 /\ g.geocoderCalls > 0) => g.answer = "match"
  /\ g.answer \in GeocoderAnswers \ {"match"} => g.centerCalls = 0
  /\ (Accepted /\ TwoNumbers(g.req.q)) =>
       LET pieces == splitComma(g.req.q.s, <<>>, <<>>) IN
       /\ g.geocoderCalls = 0
       /\ g.centerCalls = 1
       /\ g.centerArgs.latitude = Num(NumeralValue(Trim(pieces[1])))
       /\ g.centerArgs.longitude = Num(NumeralValue(Trim(pieces[2])))

\* a response with statistics for a centre the geocoder found
GeocodedThenFilteredWitness ==
  /\ g.pc = "done"
  /\ g.out.status = 200
  /\ g.geocoderCalls = 1
  /\ g.answer = "match"
  /\ g.out.place.total > 0

====
